---- MODULE Spec2Model ----
(***************************************************************************)
(* Model of mod_updater.py: the ModUpdater class that reconciles the mod   *)
(* archives of a factorio server against the mod portal.                   *)
(*                                                                         *)
(* File names, mod names and versions are sequences of one-character       *)
(* strings, so that the regular expressions of the program are modelled by *)
(* what they match, character by character.  A file's content is an        *)
(* abstract byte string; Sha1 maps contents to digests injectively.        *)
(* Not modelled: the credential checks and _determine_version of __init__  *)
(* (they are assumed to succeed), the JSON and I/O errors of               *)
(* _parse_mod_list, and I/O errors while writing a downloaded file.        *)
(***************************************************************************)
EXTENDS Integers, Sequences, FiniteSets, TLC

VARIABLES
    manifest,    \* mod-list.json: the sequence under its 'mods' key
    catalog,     \* mod portal: mod name -> the 'releases' list of /api/mods/<mod>/full
    disk,        \* the mod directory: file name -> content, or NoFile
    pc,          \* position of the single thread of control
    mods,        \* self.mods: mod name -> dict (keys may be absent, as in the code)
    order,       \* iteration order of self.mods (dict insertion order)
    mod_files,   \* self.mod_files: the glob result of this run
    idx,         \* position of the running for-loop over self.mods
    inst_rels,   \* what is left of the for-loop over inst_rels in _prune_old_releases
    mode,        \* ARGS.mode, once __main__ has dispatched on it
    exitCode,    \* process exit status, meaningful once pc = "exit"
    err,         \* what ended the process abnormally
    log,         \* stdout of this run: sequence of <<mod, message tag>>
    requests,    \* HTTP requests issued in this run: set of <<kind, mod>>
    removed,     \* os.remove calls that succeeded in this run: set of <<mod, file>>
    written,     \* files opened for writing in this run: set of <<mod, file>>
    last_result, \* history: mod name -> the result the previous invocation printed for it
    roundtrip    \* one file name under the pattern of _parse_mod_list, outside of a run

vars == <<manifest, catalog, disk, pc, mods, order, mod_files, idx, inst_rels,
          mode, exitCode, err, log, requests, removed, written, last_result, roundtrip>>

(***************************************************************************)
(* Bounds and the small input sets.                                        *)
(***************************************************************************)
MaxReleases == 2
MaxNameLen == 2
MaxVerLen == 2

NoFile == "NoFile"

NoRoundTrip == [stage |-> "unused"]

\* mod names
NameA == <<"a">>
NameAB == <<"a", "_", "b">>
NameBase == <<"b", "a", "s", "e">>

\* version strings
V1 == <<"1">>
V2 == <<"2">>

\* the factorio release of this server (self.fact_version['release']) and another one
FactRelease == "0.17"
OtherRelease == "0.16"

Contents == {"x", "y"}
Sha1(content) == IF content = "x" THEN "dA" ELSE "dB"

DotZip == <<".", "z", "i", "p">>
Fmt(mod, ver) == mod \o <<"_">> \o ver \o DotZip

AllFiles == {Fmt(NameA, V1), Fmt(NameA, V2), Fmt(NameAB, V1)}

\* the mod directories a first invocation may find
Disks == {d \in [AllFiles -> Contents \cup {NoFile}] : d[Fmt(NameAB, V1)] # "y"}

Release(ver, fname, sha, fver) ==
    [version |-> ver, file_name |-> fname, sha1 |-> sha,
     info_json |-> [factorio_version |-> fver]]

ReleasesOf(mod) ==
    IF mod = NameA
    THEN {Release(V1, Fmt(NameA, V1), "dA", FactRelease),
          Release(V2, Fmt(NameA, V2), "dA", OtherRelease),
          Release(V2, Fmt(NameA, V1), "dB", FactRelease)}
    ELSE {Release(V1, Fmt(mod, V1), "dA", FactRelease)}

ReleaseLists(mod) == UNION {[1..n -> ReleasesOf(mod)] : n \in 0..MaxReleases}

Entry(name, enabled) == [name |-> name, enabled |-> enabled]

Manifests ==
    {<<Entry(NameBase, TRUE), Entry(NameA, TRUE)>>,
     <<Entry(NameA, TRUE), Entry(NameAB, FALSE)>>,
     <<Entry(NameAB, TRUE), Entry(NameA, FALSE)>>}

(***************************************************************************)
(* Helpers on sequences and dicts.                                         *)
(***************************************************************************)
Range(s) == {s[i] : i \in DOMAIN s}

Perms(S) == {s \in [1..Cardinality(S) -> S] : Range(s) = S}

\* d[k] = v, adding the key when it is absent
Put(d, k, v) == [x \in (DOMAIN d) \cup {k} |-> IF x = k THEN v ELSE d[x]]

Has(d, k) == k \in DOMAIN d

EndsWithDotZip(s) ==
    /\ Len(s) >= 4
    /\ SubSeq(s, Len(s) - 3, Len(s)) = DotZip

\* one character of an interpolated pattern against one character of the
\* text: an unescaped '.' matches any character
AtomMatch(p, c) == p = "." \/ p = c

\* glob.glob('{mod_path}/*.zip')
Glob(d) == {f \in DOMAIN d : d[f] # NoFile /\ EndsWithDotZip(f)}

\* the keys of self.mods in insertion order: the names of the manifest, each
\* at its first position, without 'base'
RECURSIVE DictOrder(_, _)
DictOrder(entries, seen) ==
    IF entries = <<>> THEN <<>>
    ELSE LET n == Head(entries).name
         IN  IF n \in seen \/ n = NameBase
             THEN DictOrder(Tail(entries), seen \cup {n})
             ELSE <<n>> \o DictOrder(Tail(entries), seen \cup {n})

\* mod['enabled'] of the last manifest entry of that name
EnabledOf(entries, n) ==
    LET last == CHOOSE i \in DOMAIN entries :
                    /\ entries[i].name = n
                    /\ \A j \in DOMAIN entries : entries[j].name = n => j <= i
    IN  entries[last].enabled

\* re.compile('^(.*)_(.*)[.]zip$').fullmatch(basename)
ModFileMatch(basename) ==
    /\ EndsWithDotZip(basename)
    /\ \E i \in 1..(Len(basename) - 4) : basename[i] = "_"

LastUnderscore(basename) ==
    CHOOSE i \in 1..(Len(basename) - 4) :
        /\ basename[i] = "_"
        /\ \A j \in 1..(Len(basename) - 4) : basename[j] = "_" => j <= i

\* mutant: the second group runs to the end of the name, extension included
ModFileVersion_KeepsExtension(basename) ==
    SubSeq(basename, LastUnderscore(basename) + 1, Len(basename))

\* match.group(1), match.group(2): the first group is greedy
ModFileName(basename) == SubSeq(basename, 1, LastUnderscore(basename) - 1)
ModFileVersion(basename) ==
    SubSeq(basename, LastUnderscore(basename) + 1, Len(basename) - 4)

\* installed_mods after the loop over self.mod_files: a later file of the
\* same name overwrites an earlier one
RECURSIVE InstalledMods(_)
InstalledMods(files) ==
    IF files = <<>> THEN <<>>
    ELSE LET rest == InstalledMods(SubSeq(files, 1, Len(files) - 1))
             f == files[Len(files)]
         IN  IF ModFileMatch(f)
             THEN Put(rest, ModFileName(f), ModFileVersion(f))
             ELSE rest

(***************************************************************************)
(* Initial state: a process about to run ModUpdater.__init__               *)
(***************************************************************************)
Tracked(entries) == Range(DictOrder(entries, {}))

Init ==
    /\ manifest \in Manifests
    /\ catalog \in {c \in [Tracked(manifest) -> UNION {ReleaseLists(m) : m \in Tracked(manifest)}] :
                        \A m \in Tracked(manifest) : c[m] \in ReleaseLists(m)}
    /\ disk \in Disks
    /\ pc = "init"
    /\ mods = <<>>
    /\ order = <<>>
    /\ mod_files = <<>>
    /\ idx = 0
    /\ inst_rels = <<>>
    /\ mode = "unset"
    /\ exitCode = 0
    /\ err = "none"
    /\ log = <<>>
    /\ requests = {}
    /\ removed = {}
    /\ written = {}
    /\ last_result = [m \in Tracked(manifest) |-> "none"]
    /\ roundtrip = NoRoundTrip

(***************************************************************************)
(* _parse_mod_list                                                         *)
(***************************************************************************)
\* mutant: a package without archive gets the placeholder as its version
parse_mod_list_PlaceholderVersion ==
    /\ pc = "init"
    /\ \E files \in Perms(Glob(disk)) :
        LET installed_mods == InstalledMods(files)
            names == DictOrder(manifest, {})
        IN  /\ mod_files' = files
            /\ order' = names
            /\ mods' = [m \in Range(names) |->
                          IF Has(installed_mods, m)
                          THEN [enabled |-> EnabledOf(manifest, m),
                                installed |-> TRUE,
                                version |-> installed_mods[m]]
                          ELSE [enabled |-> EnabledOf(manifest, m),
                                installed |-> FALSE,
                                version |-> <<"N", "/", "A">>]]
    /\ pc' = "metadata"
    /\ idx' = 1
    /\ UNCHANGED <<manifest, catalog, disk, inst_rels, mode, exitCode, err,
                   log, requests, removed, written, last_result, roundtrip>>

parse_mod_list ==
    /\ pc = "init"
    /\ \E files \in Perms(Glob(disk)) :
        LET installed_mods == InstalledMods(files)
            names == DictOrder(manifest, {})
        IN  /\ mod_files' = files
            /\ order' = names
            /\ mods' = [m \in Range(names) |->
                          IF Has(installed_mods, m)
                          THEN [enabled |-> EnabledOf(manifest, m),
                                installed |-> TRUE,
                                version |-> installed_mods[m]]
                          ELSE [enabled |-> EnabledOf(manifest, m),
                                installed |-> FALSE]]
    /\ pc' = "metadata"
    /\ idx' = 1
    /\ UNCHANGED <<manifest, catalog, disk, inst_rels, mode, exitCode, err,
                   log, requests, removed, written, last_result, roundtrip>>

(***************************************************************************)
(* _retrieve_mod_metadata: one iteration of its first loop per step        *)
(***************************************************************************)
\* matching_releases: the releases made for this release of factorio
MatchingReleases(releases) ==
    SelectSeq(releases, LAMBDA rel : rel.info_json.factorio_version = FactRelease)

\* mutant: the first compatible release is taken
LatestOf_First(matching_releases) == matching_releases[1]

\* data['latest'] = matching_releases[-1]
LatestOf(matching_releases) == matching_releases[Len(matching_releases)]

\* mutant: a failed lookup is fatal
metadata_not_200_Aborts ==
    /\ pc = "metadata"
    /\ idx <= Len(order)
    /\ requests' = requests \cup {<<"metadata", order[idx]>>}
    /\ pc' = "exit"
    /\ exitCode' = 1
    /\ err' = "HTTPError"
    /\ UNCHANGED <<manifest, catalog, disk, mods, order, mod_files, idx,
                   inst_rels, mode, log, removed, written, last_result, roundtrip>>

\* the mod portal answers with something else than 200: continue
metadata_not_200 ==
    /\ pc = "metadata"
    /\ idx <= Len(order)
    /\ requests' = requests \cup {<<"metadata", order[idx]>>}
    /\ idx' = idx + 1
    /\ UNCHANGED <<manifest, catalog, disk, pc, mods, order, mod_files,
                   inst_rels, mode, exitCode, err, log, removed, written,
                   last_result, roundtrip>>

\* status 200 and a release for this release of factorio
metadata_200 ==
    /\ pc = "metadata"
    /\ idx <= Len(order)
    /\ LET mod == order[idx]
           matching == MatchingReleases(catalog[mod])
       IN  /\ Len(matching) > 0
           /\ mods' = [mods EXCEPT ![mod] =
                          Put(Put(@, "metadata", catalog[mod]),
                              "latest", LatestOf(matching))]
           /\ requests' = requests \cup {<<"metadata", mod>>}
           /\ log' = Append(log, <<mod, ".">>)
    /\ idx' = idx + 1
    /\ UNCHANGED <<manifest, catalog, disk, pc, order, mod_files, inst_rels,
                   mode, exitCode, err, removed, written, last_result, roundtrip>>

\* status 200 and no release for this release of factorio:
\* matching_releases[-1] raises IndexError, which nothing catches
metadata_no_match ==
    /\ pc = "metadata"
    /\ idx <= Len(order)
    /\ LET mod == order[idx]
       IN  /\ Len(MatchingReleases(catalog[mod])) = 0
           /\ mods' = [mods EXCEPT ![mod] = Put(@, "metadata", catalog[mod])]
           /\ requests' = requests \cup {<<"metadata", mod>>}
    /\ pc' = "exit"
    /\ exitCode' = 1
    /\ err' = "IndexError"
    /\ UNCHANGED <<manifest, catalog, disk, order, mod_files, idx,
                   inst_rels, mode, log, removed, written, last_result, roundtrip>>

\* the warnings of the second loop, in the order of self.mods
RECURSIVE MetadataWarnings(_, _)
MetadataWarnings(names, d) ==
    IF names = <<>> THEN <<>>
    ELSE IF Has(d[Head(names)], "metadata")
         THEN MetadataWarnings(Tail(names), d)
         ELSE <<<<Head(names), "Warning: Unable to retrieve metadata">>>>
              \o MetadataWarnings(Tail(names), d)

\* mutant: the lookup loop returns after its first iteration
metadata_done_AfterFirst ==
    /\ pc = "metadata"
    /\ idx > 1
    /\ log' = log \o MetadataWarnings(order, mods)
    /\ pc' = "main"
    /\ UNCHANGED <<manifest, catalog, disk, mods, order, mod_files, idx,
                   inst_rels, mode, exitCode, err, requests, removed,
                   written, last_result, roundtrip>>

\* the first loop is over: print the warnings and return from __init__
metadata_done ==
    /\ pc = "metadata"
    /\ idx > Len(order)
    /\ log' = log \o MetadataWarnings(order, mods)
    /\ pc' = "main"
    /\ UNCHANGED <<manifest, catalog, disk, mods, order, mod_files, idx,
                   inst_rels, mode, exitCode, err, requests, removed,
                   written, last_result, roundtrip>>

retrieve_mod_metadata ==
    \/ metadata_not_200
    \/ metadata_200
    \/ metadata_no_match
    \/ metadata_done

(***************************************************************************)
(* list, and the dispatch of __main__                                      *)
(***************************************************************************)
list ==
    /\ pc = "main"
    /\ mode' = "LIST"
    /\ pc' = "exit"
    /\ exitCode' = 0
    /\ UNCHANGED <<manifest, catalog, disk, mods, order, mod_files, idx,
                   inst_rels, err, log, requests, removed, written,
                   last_result, roundtrip>>

update_begin ==
    /\ pc = "main"
    /\ mode' = "UPDATE"
    /\ pc' = "update"
    /\ idx' = 1
    /\ UNCHANGED <<manifest, catalog, disk, mods, order, mod_files,
                   inst_rels, exitCode, err, log, requests, removed,
                   written, last_result, roundtrip>>

(***************************************************************************)
(* update: one iteration of its loop per step                              *)
(***************************************************************************)
\* re.compile('^{mod}_.*[.]zip$').fullmatch(basename): the name is
\* interpolated into the pattern unescaped
mod_pattern(mod, basename) ==
    /\ Len(basename) >= Len(mod) + 5
    /\ \A i \in 1..Len(mod) : AtomMatch(mod[i], basename[i])
    /\ basename[Len(mod) + 1] = "_"
    /\ EndsWithDotZip(basename)

\* re.compile('^{mod}_{ver}.zip$').fullmatch(basename): name and version are
\* interpolated unescaped, and the '.' before 'zip' is unescaped too
version_pattern(mod, ver, basename) ==
    LET pattern == mod \o <<"_">> \o ver \o <<".", "z", "i", "p">>
    IN  /\ Len(basename) = Len(pattern)
        /\ \A i \in 1..Len(pattern) : AtomMatch(pattern[i], basename[i])

\* inst_rels = [x for x in basenames if mod_pattern.fullmatch(x)]
InstRels(mod, files) == SelectSeq(files, LAMBDA f : mod_pattern(mod, f))

\* the loop is over: normal completion of the script
update_done ==
    /\ pc = "update"
    /\ idx > Len(order)
    /\ pc' = "exit"
    /\ exitCode' = 0
    /\ UNCHANGED <<manifest, catalog, disk, mods, order, mod_files, idx,
                   inst_rels, mode, err, log, requests, removed, written,
                   last_result, roundtrip>>

\* 'latest' not in data
update_skip ==
    /\ pc = "update"
    /\ idx <= Len(order)
    /\ ~ Has(mods[order[idx]], "latest")
    /\ log' = Append(log, <<order[idx], "Missing metadata, skipping update!">>)
    /\ idx' = idx + 1
    /\ UNCHANGED <<manifest, catalog, disk, pc, mods, order, mod_files,
                   inst_rels, mode, exitCode, err, requests, removed,
                   written, last_result, roundtrip>>

\* else: enter _prune_old_releases(mod)
update_mod ==
    /\ pc = "update"
    /\ idx <= Len(order)
    /\ Has(mods[order[idx]], "latest")
    /\ inst_rels' = InstRels(order[idx], mod_files)
    /\ pc' = "prune"
    /\ UNCHANGED <<manifest, catalog, disk, mods, order, mod_files, idx,
                   mode, exitCode, err, log, requests, removed, written,
                   last_result, roundtrip>>

(***************************************************************************)
(* _prune_old_releases: one iteration of its loop per step                 *)
(***************************************************************************)
\* the release of the latest version is kept
prune_keep ==
    /\ pc = "prune"
    /\ inst_rels # <<>>
    /\ version_pattern(order[idx], mods[order[idx]].latest.version, Head(inst_rels))
    /\ inst_rels' = Tail(inst_rels)
    /\ UNCHANGED <<manifest, catalog, disk, pc, mods, order, mod_files, idx,
                   mode, exitCode, err, log, requests, removed, written,
                   last_result, roundtrip>>

\* os.remove succeeds
prune_remove ==
    /\ pc = "prune"
    /\ inst_rels # <<>>
    /\ LET mod == order[idx]
           rel == Head(inst_rels)
       IN  /\ ~ version_pattern(mod, mods[mod].latest.version, rel)
           /\ disk[rel] # NoFile
           /\ disk' = [disk EXCEPT ![rel] = NoFile]
           /\ removed' = removed \cup {<<mod, rel>>}
           /\ log' = Append(log, <<mod, "removing">>)
    /\ inst_rels' = Tail(inst_rels)
    /\ UNCHANGED <<manifest, catalog, pc, mods, order, mod_files, idx, mode,
                   exitCode, err, requests, written, last_result, roundtrip>>

\* mutant: the OSError is reported and the loop goes on
prune_fail_Continues ==
    /\ pc = "prune"
    /\ inst_rels # <<>>
    /\ LET mod == order[idx]
           rel == Head(inst_rels)
       IN  /\ ~ version_pattern(mod, mods[mod].latest.version, rel)
           /\ log' = Append(log, <<mod, "removing">>)
    /\ inst_rels' = Tail(inst_rels)
    /\ UNCHANGED <<manifest, catalog, disk, pc, mods, order, mod_files, idx,
                   mode, exitCode, err, requests, removed, written,
                   last_result, roundtrip>>

\* os.remove raises OSError (always when the file is gone already, and
\* whenever the file system refuses): sys.exit(1)
prune_fail ==
    /\ pc = "prune"
    /\ inst_rels # <<>>
    /\ LET mod == order[idx]
           rel == Head(inst_rels)
       IN  /\ ~ version_pattern(mod, mods[mod].latest.version, rel)
           /\ log' = Append(log, <<mod, "removing">>)
    /\ pc' = "exit"
    /\ exitCode' = 1
    /\ err' = "OSError"
    /\ UNCHANGED <<manifest, catalog, disk, mods, order, mod_files, idx,
                   inst_rels, mode, requests, removed, written, last_result, roundtrip>>

\* the loop is over: return to update, which calls _download_latest_release
prune_done ==
    /\ pc = "prune"
    /\ inst_rels = <<>>
    /\ pc' = "download"
    /\ UNCHANGED <<manifest, catalog, disk, mods, order, mod_files, idx,
                   inst_rels, mode, exitCode, err, log, requests, removed,
                   written, last_result, roundtrip>>

prune_old_releases ==
    \/ prune_keep
    \/ prune_remove
    \/ prune_fail
    \/ prune_done

(***************************************************************************)
(* _validate_hash and _download_latest_release                             *)
(***************************************************************************)
\* open(target, 'rb') raises when the file is missing; nothing catches it
CanOpen(d, target) == target \in DOMAIN d /\ d[target] # NoFile

\* hasher.hexdigest() == checksum, for a file that can be opened
validate_hash(checksum, d, target) == Sha1(d[target]) = checksum

\* mutant: any installed archive counts as current, whatever its version
PlanOf_IgnoresVersion(data) ==
    IF data.installed THEN "validating installed" ELSE "downloading version"

\* the decision of lines 345-361: what is printed, and which flag is set
PlanOf(data) ==
    LET v_cur == IF Has(data, "version") THEN data.version ELSE <<"N", "/", "A">>
        v_new == data.latest.version
    IN  IF data.installed
        THEN IF v_new = v_cur THEN "validating installed" ELSE "updating from"
        ELSE "downloading version"

\* lines 341-361: choose between validate and download
download_plan ==
    /\ pc = "download"
    /\ LET mod == order[idx]
           plan == PlanOf(mods[mod])
       IN  /\ log' = Append(log, <<mod, plan>>)
           /\ pc' = IF plan = "validating installed" THEN "validate" ELSE "get"
    /\ UNCHANGED <<manifest, catalog, disk, mods, order, mod_files, idx,
                   inst_rels, mode, exitCode, err, requests, removed,
                   written, last_result, roundtrip>>

\* mutant: a valid archive is downloaded again all the same
validate_valid_Redownloads ==
    /\ pc = "validate"
    /\ LET mod == order[idx]
           latest == mods[mod].latest
       IN  /\ CanOpen(disk, latest.file_name)
           /\ validate_hash(latest.sha1, disk, latest.file_name)
           /\ log' = Append(log, <<mod, "Valid!">>)
    /\ pc' = "get"
    /\ UNCHANGED <<manifest, catalog, disk, mods, order, mod_files, idx,
                   inst_rels, mode, exitCode, err, requests, removed,
                   written, last_result, roundtrip>>

\* lines 363-365: the installed file has the digest of the release
validate_valid ==
    /\ pc = "validate"
    /\ LET mod == order[idx]
           latest == mods[mod].latest
       IN  /\ CanOpen(disk, latest.file_name)
           /\ validate_hash(latest.sha1, disk, latest.file_name)
           /\ log' = Append(log, <<mod, "Valid!">>)
    /\ pc' = "update"
    /\ idx' = idx + 1
    /\ UNCHANGED <<manifest, catalog, disk, mods, order, mod_files,
                   inst_rels, mode, exitCode, err, requests, removed,
                   written, last_result, roundtrip>>

\* mutant: a corrupted archive is only reported, the loop goes on
validate_invalid_OnlyWarns ==
    /\ pc = "validate"
    /\ LET mod == order[idx]
           latest == mods[mod].latest
       IN  /\ CanOpen(disk, latest.file_name)
           /\ ~ validate_hash(latest.sha1, disk, latest.file_name)
           /\ log' = Append(log, <<mod, "Invalid! Downloading...">>)
    /\ pc' = "update"
    /\ idx' = idx + 1
    /\ UNCHANGED <<manifest, catalog, disk, mods, order, mod_files,
                   inst_rels, mode, exitCode, err, requests, removed,
                   written, last_result, roundtrip>>

\* lines 366-368: it has another digest: download
validate_invalid ==
    /\ pc = "validate"
    /\ LET mod == order[idx]
           latest == mods[mod].latest
       IN  /\ CanOpen(disk, latest.file_name)
           /\ ~ validate_hash(latest.sha1, disk, latest.file_name)
           /\ log' = Append(log, <<mod, "Invalid! Downloading...">>)
    /\ pc' = "get"
    /\ UNCHANGED <<manifest, catalog, disk, mods, order, mod_files, idx,
                   inst_rels, mode, exitCode, err, requests, removed,
                   written, last_result, roundtrip>>

\* line 364 on a missing file: the IOError of open ends the process
validate_missing ==
    /\ pc = "validate"
    /\ ~ CanOpen(disk, mods[order[idx]].latest.file_name)
    /\ pc' = "exit"
    /\ exitCode' = 1
    /\ err' = "FileNotFoundError"
    /\ UNCHANGED <<manifest, catalog, disk, mods, order, mod_files, idx,
                   inst_rels, mode, log, requests, removed, written,
                   last_result, roundtrip>>

\* lines 370-377: the download answers 200 and its body is written to target
get_200 ==
    /\ pc = "get"
    /\ LET mod == order[idx]
           target == mods[mod].latest.file_name
       IN  \E body \in Contents :
              /\ requests' = requests \cup {<<"download", mod>>}
              /\ disk' = [disk EXCEPT ![target] = body]
              /\ written' = written \cup {<<mod, target>>}
    /\ pc' = "revalidate"
    /\ UNCHANGED <<manifest, catalog, mods, order, mod_files, idx,
                   inst_rels, mode, exitCode, err, log, removed,
                   last_result, roundtrip>>

\* lines 378-382: the download answers something else
get_not_200 ==
    /\ pc = "get"
    /\ requests' = requests \cup {<<"download", order[idx]>>}
    /\ log' = Append(log, <<order[idx], "Unable to retrieve, skipping!">>)
    /\ pc' = "revalidate"
    /\ UNCHANGED <<manifest, catalog, disk, mods, order, mod_files, idx,
                   inst_rels, mode, exitCode, err, removed, written,
                   last_result, roundtrip>>

\* lines 384-387: validate whatever is at target now
revalidate ==
    /\ pc = "revalidate"
    /\ LET mod == order[idx]
           latest == mods[mod].latest
       IN  /\ CanOpen(disk, latest.file_name)
           /\ log' = Append(log,
                  <<mod, IF validate_hash(latest.sha1, disk, latest.file_name)
                         THEN "Complete!"
                         ELSE "Download did not match checksum!">>)
    /\ pc' = "update"
    /\ idx' = idx + 1
    /\ UNCHANGED <<manifest, catalog, disk, mods, order, mod_files,
                   inst_rels, mode, exitCode, err, requests, removed,
                   written, last_result, roundtrip>>

\* line 384 on a missing file
revalidate_missing ==
    /\ pc = "revalidate"
    /\ ~ CanOpen(disk, mods[order[idx]].latest.file_name)
    /\ pc' = "exit"
    /\ exitCode' = 1
    /\ err' = "FileNotFoundError"
    /\ UNCHANGED <<manifest, catalog, disk, mods, order, mod_files, idx,
                   inst_rels, mode, log, requests, removed, written,
                   last_result, roundtrip>>

download_latest_release ==
    \/ download_plan
    \/ validate_valid
    \/ validate_invalid
    \/ validate_missing
    \/ get_200
    \/ get_not_200
    \/ revalidate
    \/ revalidate_missing

(***************************************************************************)
(* The next invocation of the script: same manifest, same mod portal, the  *)
(* mod directory as the last one left it                                   *)
(***************************************************************************)
ResultTags == {"Valid!", "Complete!", "Download did not match checksum!"}

\* the result the run printed for mod: its result line, "Unable to retrieve,
\* skipping!" when its download was refused, "none" when it printed none
ResultOf(mod, out) ==
    IF <<mod, "Unable to retrieve, skipping!">> \in Range(out)
    THEN "Unable to retrieve, skipping!"
    ELSE IF \E t \in ResultTags : <<mod, t>> \in Range(out)
         THEN CHOOSE t \in ResultTags : <<mod, t>> \in Range(out)
         ELSE "none"

invoke_again ==
    /\ pc = "exit"
    /\ pc' = "init"
    /\ mods' = <<>>
    /\ order' = <<>>
    /\ mod_files' = <<>>
    /\ idx' = 0
    /\ inst_rels' = <<>>
    /\ mode' = "unset"
    /\ exitCode' = 0
    /\ err' = "none"
    /\ log' = <<>>
    /\ requests' = {}
    /\ removed' = {}
    /\ written' = {}
    /\ last_result' = [m \in Tracked(manifest) |-> ResultOf(m, log)]
    /\ UNCHANGED <<manifest, catalog, disk, roundtrip>>

Next ==
    \/ parse_mod_list
    \/ retrieve_mod_metadata
    \/ list
    \/ update_begin
    \/ update_done
    \/ update_skip
    \/ update_mod
    \/ prune_old_releases
    \/ download_latest_release
    \/ invoke_again

Spec == Init /\ [][Next]_vars

(***************************************************************************)
(* The file name pattern of _parse_mod_list on its own: a name and a       *)
(* version are formatted as <name>_<version>.zip, and the file name is     *)
(* matched as the loop over self.mod_files matches it.                     *)
(***************************************************************************)
\* the non-empty strings over S of at most n characters
SeqsUpTo(S, n) == UNION {[1..k -> S] : k \in 1..n}

NameChars == {"a", ".", "_"}
VerChars == {"1", ".", "_"}

InitRoundTrip ==
    /\ roundtrip \in {[stage |-> "input", name |-> n, version |-> v] :
                          n \in SeqsUpTo(NameChars, MaxNameLen),
                          v \in SeqsUpTo(VerChars, MaxVerLen)}
    /\ manifest = <<>>
    /\ catalog = <<>>
    /\ disk = [f \in AllFiles |-> NoFile]
    /\ pc = "roundtrip"
    /\ mods = <<>>
    /\ order = <<>>
    /\ mod_files = <<>>
    /\ idx = 0
    /\ inst_rels = <<>>
    /\ mode = "unset"
    /\ exitCode = 0
    /\ err = "none"
    /\ log = <<>>
    /\ requests = {}
    /\ removed = {}
    /\ written = {}
    /\ last_result = <<>>

\* the archive of that name and version gets its file name
format_file_name ==
    /\ roundtrip.stage = "input"
    /\ roundtrip' = [stage |-> "file", name |-> roundtrip.name,
                     version |-> roundtrip.version,
                     basename |-> Fmt(roundtrip.name, roundtrip.version)]
    /\ UNCHANGED <<manifest, catalog, disk, pc, mods, order, mod_files, idx,
                   inst_rels, mode, exitCode, err, log, requests, removed,
                   written, last_result>>

\* match = mod_pattern.fullmatch(basename); the two groups of a match
match_file_name ==
    /\ roundtrip.stage = "file"
    /\ roundtrip' = IF ModFileMatch(roundtrip.basename)
                    THEN [stage |-> "matched", name |-> roundtrip.name,
                          version |-> roundtrip.version,
                          basename |-> roundtrip.basename,
                          group1 |-> ModFileName(roundtrip.basename),
                          group2 |-> ModFileVersion(roundtrip.basename)]
                    ELSE [stage |-> "no match", name |-> roundtrip.name,
                          version |-> roundtrip.version,
                          basename |-> roundtrip.basename]
    /\ UNCHANGED <<manifest, catalog, disk, pc, mods, order, mod_files, idx,
                   inst_rels, mode, exitCode, err, log, requests, removed,
                   written, last_result>>

NextRoundTrip ==
    \/ format_file_name
    \/ match_file_name

SpecRoundTrip == InitRoundTrip /\ [][NextRoundTrip]_vars

(***************************************************************************)
(* Vocabulary of the properties                                            *)
(***************************************************************************)
Printed(mod, tag) == <<mod, tag>> \in Range(log)

\* the process ended abnormally while the loop it was in stood at order[i]
DiedAt(i) == pc = "exit" /\ exitCode # 0 /\ idx = i

\* the update loop has left order[i] behind
Passed(i) == mode = "UPDATE" /\ idx > i

Touched(mod) == {f \in AllFiles : <<mod, f>> \in removed \cup written}

SyncedOk(mod) == Printed(mod, "Valid!") \/ Printed(mod, "Complete!")

\* the archives <name>_<version>.zip of the mod directory, by the name the
\* pattern of _parse_mod_list reads from them
ArchivesOf(mod) == {f \in Glob(disk) : ModFileMatch(f) /\ ModFileName(f) = mod}

(***************************************************************************)
(* C1: a tracked package whose lookup succeeds but whose releases hold     *)
(* none for this factorio release keeps 'latest' unset, the lookup does    *)
(* not end the run, and update skips the package without removing or       *)
(* writing a file for it.                                                  *)
(***************************************************************************)
C1_NoCompatibleReleaseIsSkipped ==
    \A i \in DOMAIN order :
        LET m == order[i]
        IN  (Has(mods[m], "metadata") /\ MatchingReleases(mods[m].metadata) = <<>>)
            => /\ ~ Has(mods[m], "latest")
               /\ ~ (mode = "unset" /\ DiedAt(i))
               /\ Passed(i) => /\ Printed(m, "Missing metadata, skipping update!")
                               /\ Touched(m) = {}

(***************************************************************************)
(* C2: a download that answers something else than success is a soft       *)
(* failure: the process does not end abnormally at that package, whatever  *)
(* the package's state was, and the loop goes on to the next package.      *)
(***************************************************************************)
C2_DownloadFailureIsSoft ==
    \A i \in DOMAIN order :
        Printed(order[i], "Unable to retrieve, skipping!")
        => /\ ~ DiedAt(i)
           /\ idx = i => pc = "revalidate"

(***************************************************************************)
(* C3: after an update in which every package with a latest release        *)
(* synced successfully, each such package has at most one archive in the   *)
(* mod directory, and it is the file latest['file_name'].                  *)
(***************************************************************************)
RunSucceeded ==
    /\ pc = "exit"
    /\ mode = "UPDATE"
    /\ exitCode = 0
    /\ \A m \in DOMAIN mods : Has(mods[m], "latest") => SyncedOk(m)

C3_OneArchiveNamedFileName ==
    RunSucceeded
    => \A m \in DOMAIN mods :
          Has(mods[m], "latest") => ArchivesOf(m) \subseteq {mods[m].latest.file_name}

(***************************************************************************)
(* C4: for a package with a latest release the action is VALIDATE exactly  *)
(* when it is installed and its installed version equals the version of    *)
(* the latest release, and REPLACE (download without validating first)     *)
(* otherwise; every package that reaches the decision gets one of the two. *)
(* Nothing but these three fields of the package's own record enters.      *)
(***************************************************************************)
IsCurrent(data) ==
    data.installed /\ Has(data, "version") /\ data.version = data.latest.version

C4_ValidateIffInstalledCurrent ==
    \A i \in DOMAIN order :
        LET m == order[i]
        IN  /\ Printed(m, "validating installed") => IsCurrent(mods[m])
            /\ (Printed(m, "updating from") \/ Printed(m, "downloading version"))
                   => ~ IsCurrent(mods[m])
            /\ (idx = i /\ pc = "validate") => IsCurrent(mods[m])
            /\ (idx = i /\ pc = "get" /\ ~ Printed(m, "Invalid! Downloading..."))
                   => ~ IsCurrent(mods[m])
            /\ (Has(mods[m], "latest") /\ (Passed(i) \/ (idx = i /\ pc \in {"validate", "get", "revalidate"})))
                   => \/ Printed(m, "validating installed")
                      \/ Printed(m, "updating from")
                      \/ Printed(m, "downloading version")

\* a disabled package is validated in the run in which another one is downloaded
C4_Witness ==
    \E m1, m2 \in DOMAIN mods :
        /\ ~ mods[m1].enabled
        /\ Printed(m1, "validating installed")
        /\ Printed(m2, "downloading version")

(***************************************************************************)
(* C5 as amended: when the validation of a package installed at exactly    *)
(* the latest version finds the digest of the release, that step prints    *)
(* the success and changes neither the mod directory nor the requests;     *)
(* and a package reported valid was installed at the latest version, had   *)
(* no download request and no file written, and the only files removed for *)
(* it are the other archives the prune pattern matched, never the          *)
(* validated archive.                                                      *)
(***************************************************************************)
ValidReported(i) ==
    LET m == order[i]
        latest == mods[m].latest
    IN  Printed(m, "Valid!")
        => /\ IsCurrent(mods[m])
           /\ <<"download", m>> \notin requests
           /\ \A f \in AllFiles : <<m, f>> \notin written
           /\ <<m, latest.file_name>> \notin removed
           /\ \A f \in AllFiles :
                  <<m, f>> \in removed
                  => mod_pattern(m, f) /\ ~ version_pattern(m, latest.version, f)

ValidArchiveStep ==
    (/\ pc = "validate"
     /\ CanOpen(disk, mods[order[idx]].latest.file_name)
     /\ Sha1(disk[mods[order[idx]].latest.file_name]) = mods[order[idx]].latest.sha1)
    => /\ log' = Append(log, <<order[idx], "Valid!">>)
       /\ idx' = idx + 1
       /\ pc' = "update"
       /\ disk' = disk
       /\ requests' = requests
       /\ removed' = removed
       /\ written' = written

C5_ValidArchiveOnlyPruned ==
    /\ [](\A i \in DOMAIN order : ValidReported(i))
    /\ [][ValidArchiveStep]_vars

\* a package is reported valid after a stale archive of it was pruned
C5_Witness ==
    \E m \in DOMAIN mods :
        /\ Printed(m, "Valid!")
        /\ \E f \in AllFiles :
              <<m, f>> \in removed /\ ModFileMatch(f) /\ ModFileName(f) = m

\* C5 as stated, read on the package's own archives: a package reported
\* valid had no download request, no file written and no archive of its
\* name deleted
C5_ValidArchiveNoFileChanges ==
    \A m \in DOMAIN mods :
        Printed(m, "Valid!")
        => /\ <<"download", m>> \notin requests
           /\ \A f \in AllFiles :
                  (ModFileMatch(f) /\ ModFileName(f) = m)
                  => <<m, f>> \notin removed \cup written

(***************************************************************************)
(* C6: when the archive of a package installed at exactly the latest       *)
(* version fails the validation, the same run downloads the release to the *)
(* target path and validates the file at the target again, and all of it   *)
(* before anything is done for the next package.                           *)
(***************************************************************************)
UpdateTags ==
    {"removing", "validating installed", "updating from", "downloading version",
     "Valid!", "Invalid! Downloading...", "Unable to retrieve, skipping!",
     "Complete!", "Download did not match checksum!",
     "Missing metadata, skipping update!"}

\* update has done nothing yet for the packages after order[i]
LaterUntouched(i) ==
    \A j \in DOMAIN order :
        j > i => /\ \A t \in UpdateTags : ~ Printed(order[j], t)
                 /\ <<"download", order[j]>> \notin requests
                 /\ Touched(order[j]) = {}

C6_InvalidArchiveIsReplaced ==
    \A i \in DOMAIN order :
        LET m == order[i]
            latest == mods[m].latest
        IN  Printed(m, "Invalid! Downloading...")
            => /\ IsCurrent(mods[m])
               /\ idx >= i
               /\ idx = i => pc \in {"get", "revalidate"} /\ LaterUntouched(i)
               /\ (idx > i \/ pc = "revalidate") => <<"download", m>> \in requests
               /\ idx > i => \/ Printed(m, "Complete!")
                             \/ Printed(m, "Download did not match checksum!")
               /\ (idx = i + 1 /\ pc = "update")
                      => /\ CanOpen(disk, latest.file_name)
                         /\ Printed(m, "Complete!")
                                <=> Sha1(disk[latest.file_name]) = latest.sha1
                         /\ LaterUntouched(i)

\* a corrupted current archive was downloaded again and found complete
C6_Witness ==
    \E m \in DOMAIN mods :
        /\ Printed(m, "Invalid! Downloading...")
        /\ Printed(m, "Complete!")
        /\ <<m, mods[m].latest.file_name>> \in written

(***************************************************************************)
(* C7: when the removal of a superseded archive fails, the process ends at *)
(* once with a nonzero status: the failing step changes no file, what was  *)
(* left to prune for the package stays, nothing is validated or downloaded *)
(* for it, nothing at all is done for a later package, and the ended       *)
(* process does nothing more.                                              *)
(***************************************************************************)
\* a step of the prune loop that stands on a superseded archive and does
\* not remove it
FailedRemoveStep ==
    /\ pc = "prune"
    /\ inst_rels # <<>>
    /\ ~ version_pattern(order[idx], mods[order[idx]].latest.version, Head(inst_rels))
    /\ ~ (disk[Head(inst_rels)] # NoFile /\ disk'[Head(inst_rels)] = NoFile)

AbortedInPrune == pc = "exit" /\ err = "OSError"

C7_RemoveFailureAborts ==
    /\ [][FailedRemoveStep
            => /\ pc' = "exit"
               /\ exitCode' # 0
               /\ err' = "OSError"
               /\ disk' = disk
               /\ requests' = requests
               /\ written' = written
               /\ removed' = removed]_vars
    /\ [](AbortedInPrune
            => /\ exitCode # 0
               /\ mode = "UPDATE"
               /\ idx \in DOMAIN order
               /\ inst_rels # <<>>
               /\ \A f \in Range(inst_rels) : <<order[idx], f>> \notin removed
               /\ \A t \in UpdateTags \ {"removing"} : ~ Printed(order[idx], t)
               /\ <<"download", order[idx]>> \notin requests
               /\ \A f \in AllFiles : <<order[idx], f>> \notin written
               /\ LaterUntouched(idx))
    /\ [][AbortedInPrune => pc' = "init" /\ disk' = disk]_vars

\* the second removal of a package fails while another package waits
C7_Witness ==
    /\ AbortedInPrune
    /\ \E f \in AllFiles : <<order[idx], f>> \in removed
    /\ idx < Len(order)

(***************************************************************************)
(* C8: a lookup answered with something else than success leaves the       *)
(* package without 'latest' and does not end the run: the lookup loop goes *)
(* on to the next package and, where it runs to its end, has asked for     *)
(* every package; update then skips the package, removing and writing no   *)
(* file and requesting no download for it.                                 *)
(***************************************************************************)
LookupFailed(mod) ==
    <<"metadata", mod>> \in requests /\ ~ Has(mods[mod], "metadata")

\* __init__ has returned: the loop of _retrieve_mod_metadata ran to its end
LookupsOver == pc \notin {"init", "metadata"} /\ err # "IndexError"

C8_LookupFailureIsSoft ==
    \A i \in DOMAIN order :
        LET m == order[i]
        IN  LookupFailed(m)
            => /\ ~ Has(mods[m], "latest")
               /\ ~ (mode = "unset" /\ DiedAt(i))
               /\ pc = "metadata" => idx > i
               /\ (i < Len(order) /\ (pc # "metadata" \/ idx > i + 1))
                      => <<"metadata", order[i + 1]>> \in requests
               /\ LookupsOver
                      => /\ \A j \in DOMAIN order : <<"metadata", order[j]>> \in requests
                         /\ Printed(m, "Warning: Unable to retrieve metadata")
               /\ Passed(i) => Printed(m, "Missing metadata, skipping update!")
               /\ Touched(m) = {}
               /\ <<"download", m>> \notin requests
               /\ \A t \in UpdateTags \ {"Missing metadata, skipping update!"} :
                      ~ Printed(m, t)

\* one lookup failed, the other package was looked up after it and synced
C8_Witness ==
    \E i, j \in DOMAIN order :
        /\ i < j
        /\ LookupFailed(order[i])
        /\ Printed(order[i], "Missing metadata, skipping update!")
        /\ Has(mods[order[j]], "latest")
        /\ Printed(order[j], "Complete!")

(***************************************************************************)
(* C9: a download that succeeds but whose file does not have the digest of *)
(* the release is a soft failure, and the next invocation retries the      *)
(* package: where it has its latest release again, update does not die on  *)
(* it and issues a new download for it.  Stated for the releases whose     *)
(* file_name is <mod>_<version>.zip.                                       *)
(***************************************************************************)
\* the update loop of this invocation is done with order[i]: it went on, or
\* the process died there on something else than a failed removal
DoneWith(i) == Passed(i) \/ (mode = "UPDATE" /\ DiedAt(i) /\ err # "OSError")

C9_MismatchIsSoftAndRetried ==
    \A i \in DOMAIN order :
        LET m == order[i]
        IN  /\ (Printed(m, "Download did not match checksum!")
                  /\ ~ Printed(m, "Unable to retrieve, skipping!"))
               => ~ DiedAt(i) /\ idx > i
            /\ (last_result[m] = "Download did not match checksum!"
                  /\ Has(mods[m], "latest") /\ DoneWith(i)
                  /\ mods[m].latest.file_name = Fmt(m, mods[m].latest.version))
               => <<"download", m>> \in requests

(***************************************************************************)
(* C10: the release attached as 'latest' is the last release of the        *)
(* catalog's answer, in its order, that was made for this release of       *)
(* factorio; a release made for another one is never attached, wherever it *)
(* stands in the list.                                                     *)
(***************************************************************************)
Compatible(rel) == rel.info_json.factorio_version = FactRelease

C10_LastCompatibleReleaseWins ==
    \A m \in DOMAIN mods :
        Has(mods[m], "latest")
        => /\ Has(mods[m], "metadata")
           /\ mods[m].metadata = catalog[m]
           /\ Compatible(mods[m].latest)
           /\ \E k \in DOMAIN catalog[m] :
                 /\ catalog[m][k] = mods[m].latest
                 /\ Compatible(catalog[m][k])
                 /\ \A j \in DOMAIN catalog[m] : j > k => ~ Compatible(catalog[m][j])

\* two different compatible releases, the second one attached
C10_Witness ==
    \E m \in DOMAIN mods :
        /\ Has(mods[m], "latest")
        /\ Len(catalog[m]) >= 2
        /\ Compatible(catalog[m][1])
        /\ Compatible(catalog[m][2])
        /\ catalog[m][1] # catalog[m][2]
        /\ mods[m].latest = catalog[m][2]

(***************************************************************************)
(* C11 as stated: each package is fully reconciled, metadata lookup        *)
(* included, before any step begins for the next one: while update works   *)
(* on a package, no lookup has been made yet for a later package.          *)
(***************************************************************************)
UpdateWorksOn(i) ==
    /\ mode = "UPDATE"
    /\ idx = i
    /\ pc \in {"prune", "download", "validate", "get", "revalidate"}

C11_LookupInsidePackageTurn ==
    \A i, j \in DOMAIN order :
        (i < j /\ UpdateWorksOn(i)) => <<"metadata", order[j]>> \notin requests

(***************************************************************************)
(* C11 as amended: execution is sequential in two passes.  The lookups are *)
(* made one package after the other, in the order of the manifest, and all *)
(* of them before update does anything; then update takes the packages in  *)
(* the same order, and plan, prune, download and validation of one package *)
(* are over before any of these steps begins for the next.                 *)
(***************************************************************************)
LookupsMade == {<<"metadata", order[j]>> : j \in DOMAIN order}

UpdateResultTags ==
    {"Valid!", "Complete!", "Download did not match checksum!",
     "Missing metadata, skipping update!"}

\* nothing of update has happened in this run
UpdateNotBegun ==
    /\ \A j \in DOMAIN order : \A t \in UpdateTags : ~ Printed(order[j], t)
    /\ requests \subseteq LookupsMade
    /\ removed = {}
    /\ written = {}

TwoPasses ==
    /\ pc = "metadata"
         => /\ requests = {<<"metadata", order[j]>> : j \in 1..(idx - 1)}
            /\ UpdateNotBegun
    /\ mode = "unset" => UpdateNotBegun
    /\ mode = "UPDATE"
         => /\ LookupsMade \subseteq requests
            /\ \A i \in DOMAIN order :
                  /\ i < idx => \E t \in UpdateResultTags : Printed(order[i], t)
                  /\ i = idx => LaterUntouched(i)
                  /\ i >= idx => \A t \in UpdateResultTags : ~ Printed(order[i], t)

\* a step of update concerns the package the loop stands on, and no other
OnePackageAtATime ==
    /\ (mode = "UPDATE" /\ pc # "exit" /\ idx \in DOMAIN order)
       => /\ idx' \in {idx, idx + 1}
          /\ log' # log => \E t \in UpdateTags : log' = Append(log, <<order[idx], t>>)
          /\ requests' # requests => requests' = requests \cup {<<"download", order[idx]>>}
          /\ removed' \ removed \subseteq {<<order[idx], f>> : f \in AllFiles}
          /\ written' \ written \subseteq {<<order[idx], f>> : f \in AllFiles}
    /\ (mode = "UPDATE" /\ pc # "exit" /\ idx \notin DOMAIN order)
       => /\ pc' = "exit"
          /\ UNCHANGED <<disk, log, requests, removed, written>>

C11_TwoSequentialPasses ==
    /\ []TwoPasses
    /\ [][OnePackageAtATime]_vars

\* update is at its second package after it downloaded the first
C11_Witness ==
    /\ UpdateWorksOn(2)
    /\ pc = "revalidate"
    /\ Printed(order[1], "Complete!")
    /\ <<"download", order[1]>> \in requests
    /\ LookupsMade \subseteq requests

(***************************************************************************)
(* C12 as stated: for a package name without underscore and any version    *)
(* string, the file name <name>_<version>.zip matches the pattern of       *)
(* _parse_mod_list and its groups are that name and that version.          *)
(***************************************************************************)
NoUnderscore(str) == \A i \in DOMAIN str : str[i] # "_"

Parsed == roundtrip.stage \in {"matched", "no match"}

RecoversNameAndVersion ==
    /\ roundtrip.stage = "matched"
    /\ roundtrip.group1 = roundtrip.name
    /\ roundtrip.group2 = roundtrip.version

C12_RoundTripAnyVersion ==
    (Parsed /\ NoUnderscore(roundtrip.name)) => RecoversNameAndVersion

(***************************************************************************)
(* C12 as amended: the round trip holds for a package name without         *)
(* underscore and a version string without underscore.                     *)
(***************************************************************************)
C12_RoundTripPlainVersion ==
    (Parsed /\ NoUnderscore(roundtrip.name) /\ NoUnderscore(roundtrip.version))
    => RecoversNameAndVersion

\* a dotted name and a dotted version came back
C12_Witness ==
    /\ roundtrip.stage = "matched"
    /\ roundtrip.name = <<"a", ".">>
    /\ roundtrip.version = <<"1", ".">>
    /\ roundtrip.group1 = roundtrip.name
    /\ roundtrip.group2 = roundtrip.version

(***************************************************************************)
(* C13: when the prune pre-step of a package is over, the only archive of  *)
(* the package left in the mod directory is the one of the latest version, *)
(* that archive was not deleted, and every file the pre-step deleted was   *)
(* an archive of this package.  Stated for the releases whose file_name is *)
(* <mod>_<version>.zip.                                                    *)
(***************************************************************************)
PruneOver(i) == mode = "UPDATE" /\ idx = i /\ pc = "download"

C13_PruneLeavesTargetOnly ==
    \A i \in DOMAIN order :
        LET m == order[i]
            target == mods[m].latest.file_name
        IN  (PruneOver(i) /\ target = Fmt(m, mods[m].latest.version))
            => /\ ArchivesOf(m) \subseteq {target}
               /\ <<m, target>> \notin removed
               /\ \A f \in AllFiles :
                     <<m, f>> \in removed => ModFileMatch(f) /\ ModFileName(f) = m

(***************************************************************************)
(* C14: in every state of a run, each package record has its installed     *)
(* version ('version') set if and only if its 'installed' is true.         *)
(***************************************************************************)
C14_VersionIffInstalled ==
    \A m \in DOMAIN mods :
        /\ Has(mods[m], "installed")
        /\ mods[m].installed \in BOOLEAN
        /\ mods[m].installed <=> Has(mods[m], "version")

\* an installed and a missing package, while update waits on the download
\* of the missing one
C14_Witness ==
    \E m1, m2 \in DOMAIN mods :
        /\ mods[m1].installed /\ Has(mods[m1], "version")
        /\ ~ mods[m2].installed /\ ~ Has(mods[m2], "version")
        /\ pc = "revalidate"
        /\ order[idx] = m2
        /\ <<m2, mods[m2].latest.file_name>> \in written

(***************************************************************************)
(* C15: once a package was replaced with success (the download answered    *)
(* 200, the file was written and has the digest of the release), its       *)
(* record says installed, at the version of the latest release.            *)
(***************************************************************************)
Replaced(mod) ==
    /\ Printed(mod, "Complete!")
    /\ ~ Printed(mod, "Unable to retrieve, skipping!")
    /\ <<mod, mods[mod].latest.file_name>> \in written

C15_RecordFollowsReplace ==
    \A m \in DOMAIN mods :
        Replaced(m)
        => /\ mods[m].installed
           /\ Has(mods[m], "version")
           /\ mods[m].version = mods[m].latest.version

(***************************************************************************)
(* C16: pruning for a package removes only archives whose name, as the     *)
(* pattern of _parse_mod_list reads it, is that package: for two different *)
(* tracked packages, the one never removes an archive of the other.        *)
(***************************************************************************)
C16_PruneStaysInPackage ==
    \A p, q \in DOMAIN mods :
        p # q
        => \A f \in AllFiles :
              <<p, f>> \in removed => ~ (ModFileMatch(f) /\ ModFileName(f) = q)

(***************************************************************************)
(* C17: whenever update is about to call _validate_hash, for an installed  *)
(* archive or after a download attempt, the file latest['file_name'] is in *)
(* the mod directory, and no run ends on a missing file.                   *)
(***************************************************************************)
C17_ValidatorFindsTarget ==
    /\ (mode = "UPDATE" /\ pc \in {"validate", "revalidate"})
          => CanOpen(disk, mods[order[idx]].latest.file_name)
    /\ err # "FileNotFoundError"

(***************************************************************************)
(* C18: update is idempotent.  When the previous invocation ended in       *)
(* success for every package, the next one, with the same manifest and the *)
(* same answers of the mod portal, plans the validation of each package,   *)
(* removes and writes no file, requests no download and does not fail.     *)
(* Stated for the releases whose file_name is <mod>_<version>.zip.         *)
(***************************************************************************)
\* this run is an update that follows a run with success for every package,
\* and the lookups gave every package its latest release again
AfterCleanRun ==
    /\ mode = "UPDATE"
    /\ \A m \in DOMAIN mods :
          /\ last_result[m] \in {"Valid!", "Complete!"}
          /\ Has(mods[m], "latest")
          /\ mods[m].latest.file_name = Fmt(m, mods[m].latest.version)

C18_SecondRunChangesNothing ==
    AfterCleanRun
    => /\ removed = {}
       /\ written = {}
       /\ \A m \in DOMAIN mods :
             /\ <<"download", m>> \notin requests
             /\ ~ Printed(m, "updating from")
             /\ ~ Printed(m, "downloading version")
       /\ err = "none"

====
